---- MODULE Spec2Model ----
(***************************************************************************)
(* State-machine model of the MapView component                            *)
(* (src/src/components/MapView.tsx): the token gate, the map click         *)
(* listener, the ordered stop list, the route refresher, the debounced     *)
(* location search and the two provider calls (geocoding, directions).     *)
(*                                                                         *)
(* One action is one event of the single UI thread: a user event with the  *)
(* handler it runs (and the re-render and effects that follow it), a timer *)
(* callback, or the continuation of an awaited provider call.              *)
(***************************************************************************)
EXTENDS Integers, Sequences, FiniteSets, TLC

\* ---------------------------------------------------------------- bounds
MaxSteps == 18         \* events handled since mount, in the runs explored

\* ------------------------------------------------------- input alphabets
Tokens == {"", "pk"}                       \* text typed in the token field
StopNames == {"", "A", "B"}                \* text typed in the name field
Queries == {"", "ab", "abc", "abd"}        \* text typed in the search field
ClickPoints == {<<10, 20>>}                \* e.lngLat of a map click

\* ------------------------------------------------------ program constants
MinQueryLength == 3    \* searchLocations: query.length < 3
SuggestOffset == 2     \* suggestStop: coordinates[0] + 2

NoRoute == [kind |-> "none"]

VARIABLES
    mapboxToken,      \* useState('')
    isTokenSet,       \* useState(false)
    mapInstances,     \* number of mapboxgl.Map objects created; map.current # null iff > 0
    clickStopName,    \* newStopName as captured by the click listener's closure
    stops,            \* useState<Stop[]>([])
    newStopName,      \* useState('')
    searchQuery,      \* useState('')
    searchResults,    \* useState<SearchResult[]>([])
    timers,           \* pending setTimeout callbacks of the debounce effect
    delayDebounceFn,  \* handle held by the cleanup of the latest effect run
    geoInFlight,      \* geocoding fetches awaiting their response, in issue order
    dirInFlight,      \* directions fetches awaiting their response, in issue order
    routeSource,      \* the map's 'route' source/layer: NoRoute or its geometry
    clock,            \* Date.now(), in milliseconds since mount
    emitted,          \* titles passed to toast() by the most recent step
    unhandledRejection, \* an updateRoute call has thrown since mount
    last,             \* the most recent step and its inputs
    steps             \* number of events handled since mount

vars == <<mapboxToken, isTokenSet, mapInstances, clickStopName, stops,
          newStopName, searchQuery, searchResults, timers, delayDebounceFn,
          geoInFlight, dirInFlight, routeSource, clock, emitted,
          unhandledRejection, last, steps>>

\* --------------------------------------------------------- pure functions
Digit(d) ==
    CASE d = 0 -> "0" [] d = 1 -> "1" [] d = 2 -> "2" [] d = 3 -> "3"
      [] d = 4 -> "4" [] d = 5 -> "5" [] d = 6 -> "6" [] d = 7 -> "7"
      [] d = 8 -> "8" [] d = 9 -> "9"

RECURSIVE toString(_)
\* Number.prototype.toString() of a non-negative integer
toString(n) ==
    IF n < 10 THEN Digit(n) ELSE toString(n \div 10) \o Digit(n % 10)

\* what the geocoding endpoint answers for a query: data.features
Geocode(query) ==
    CASE query = "abc" -> << [place_name |-> "P1", center |-> <<10, 20>>],
                             [place_name |-> "P2", center |-> <<12, 22>>] >>
      [] query = "abd" -> << [place_name |-> "P2", center |-> <<12, 22>>] >>
      [] OTHER -> << >>

\* data.features.map(feature => ({place_name, center}))
mapFeatures(features) ==
    [i \in 1..Len(features) |->
        [place_name |-> features[i].place_name, center |-> features[i].center]]

\* the geometry of the first route candidate the directions endpoint returns
\* for a waypoint list (opaque to the component)
Geometry(waypoints) == [kind |-> "LineString", through |-> waypoints]

\* currentStops.map(stop => stop.coordinates)
coordinatesOf(currentStops) ==
    [i \in 1..Len(currentStops) |-> currentStops[i].coordinates]

\* ------------------------------------------------------------------ Init
\* The state after the first render and its effects: the token form is
\* shown, and the debounce effect has run once with the empty query.
Init ==
    /\ mapboxToken = ""
    /\ isTokenSet = FALSE
    /\ mapInstances = 0
    /\ clickStopName = ""
    /\ stops = << >>
    /\ newStopName = ""
    /\ searchQuery = ""
    /\ searchResults = << >>
    /\ timers = {[h |-> 1, query |-> "", due |-> FALSE]}
    /\ delayDebounceFn = 1
    /\ geoInFlight = << >>
    /\ dirInFlight = << >>
    /\ routeSource = NoRoute
    /\ clock = 0
    /\ emitted = << >>
    /\ unhandledRejection = FALSE
    /\ last = [op |-> "mount"]
    /\ steps = 0

\* one more event is handled; the runs explored are MaxSteps events long
Counted == steps < MaxSteps /\ steps' = steps + 1

\* ---------------------------------------------------------- token gate
\* <Input value={mapboxToken} onChange=...> of the token form
SetMapboxToken(t) ==
    /\ ~isTokenSet
    /\ t # mapboxToken
    /\ mapboxToken' = t
    /\ emitted' = << >>
    /\ Counted
    /\ UNCHANGED unhandledRejection
    /\ last' = [op |-> "setMapboxToken", token |-> t]
    /\ UNCHANGED <<isTokenSet, mapInstances, clickStopName, stops, newStopName,
                   searchQuery, searchResults, timers, delayDebounceFn,
                   geoInFlight, dirInFlight, routeSource, clock>>

\* initializeMap: does it go past its early return? mapContainer.current is
\* the div of the map-active render, so it is set iff that render happened.
initializeMapRuns(containerMounted, token) ==
    containerMounted /\ token # ""

submitNeverDisabled(token) == FALSE

\* the submit button: disabled={!mapboxToken}
submitDisabled(token) == token = ""

\* <Button onClick={() => setIsTokenSet(true)} disabled={!mapboxToken}>,
\* then the [isTokenSet] effect, which calls initializeMap
SubmitToken ==
    /\ ~isTokenSet
    /\ ~submitDisabled(mapboxToken)
    /\ isTokenSet' = TRUE
    /\ IF initializeMapRuns(isTokenSet', mapboxToken)
         THEN /\ mapInstances' = mapInstances + 1
              /\ clickStopName' = newStopName
         ELSE UNCHANGED <<mapInstances, clickStopName>>
    /\ emitted' = << >>
    /\ Counted
    /\ UNCHANGED unhandledRejection
    /\ last' = [op |-> "submitToken"]
    /\ UNCHANGED <<mapboxToken, stops, newStopName, searchQuery, searchResults,
                   timers, delayDebounceFn, geoInFlight, dirInFlight,
                   routeSource, clock>>

\* ------------------------------------------------------- the name field
\* <Input value={newStopName} onChange={e => setNewStopName(e.target.value)}>
SetNewStopName(n) ==
    /\ isTokenSet
    /\ n # newStopName
    /\ newStopName' = n
    /\ emitted' = << >>
    /\ Counted
    /\ UNCHANGED unhandledRejection
    /\ last' = [op |-> "setNewStopName", name |-> n]
    /\ UNCHANGED <<mapboxToken, isTokenSet, mapInstances, clickStopName, stops,
                   searchQuery, searchResults, timers, delayDebounceFn,
                   geoInFlight, dirInFlight, routeSource, clock>>

\* ---------------------------------------------------- debounced search
\* clearTimeout(handle): a handle that already fired is not pending any more
clearTimeout(pending, handle) == {t \in pending : t.h # handle}

effectCleanupMissing(pending, handle) == pending

\* the cleanup returned by the [searchQuery] effect
effectCleanup(pending, handle) == clearTimeout(pending, handle)

\* setTimeout returns a handle no pending timer has
freshHandle(pending) ==
    CHOOSE h \in 1..(Cardinality(pending) + 1) :
        \A t \in pending : t.h # h

\* The [searchQuery] effect across a render that takes searchQuery from
\* `old` to `new`: nothing when the dependency is unchanged, otherwise the
\* previous run's cleanup followed by a new timer whose callback closes over
\* the new value.
searchEffectTimers(old, new) ==
    IF new = old THEN timers
    ELSE LET cleared == effectCleanup(timers, delayDebounceFn)
         IN  cleared \cup {[h |-> freshHandle(cleared), query |-> new,
                            due |-> FALSE]}

searchEffectHandle(old, new) ==
    IF new = old THEN delayDebounceFn
    ELSE freshHandle(effectCleanup(timers, delayDebounceFn))

\* <Input value={searchQuery} onChange={e => setSearchQuery(e.target.value)}>
SetSearchQuery(q) ==
    /\ isTokenSet
    /\ q # searchQuery
    /\ searchQuery' = q
    /\ timers' = searchEffectTimers(searchQuery, q)
    /\ delayDebounceFn' = searchEffectHandle(searchQuery, q)
    /\ emitted' = << >>
    /\ Counted
    /\ UNCHANGED unhandledRejection
    /\ last' = [op |-> "setSearchQuery", query |-> q]
    /\ UNCHANGED <<mapboxToken, isTokenSet, mapInstances, clickStopName, stops,
                   newStopName, searchResults, geoInFlight, dirInFlight,
                   routeSource, clock>>

\* the timer callback's test: if (searchQuery)
callbackSearches(query) == query # ""

\* searchLocations' early return: !query || query.length < 3
tooShort(query) == query = "" \/ Len(query) < MinQueryLength

\* The callback of a pending timer runs, no earlier than its delay after it
\* was set: searchLocations up to its first await. `query` is the value the
\* callback closed over.
TimerFire(t) ==
    /\ t \in timers
    /\ t.due
    /\ timers' = timers \ {t}
    /\ IF ~callbackSearches(t.query)
         THEN UNCHANGED <<searchResults, geoInFlight>>
         ELSE IF tooShort(t.query)
           THEN /\ searchResults' = << >>
                /\ UNCHANGED geoInFlight
           ELSE /\ geoInFlight' = Append(geoInFlight,
                       [query |-> t.query, token |-> mapboxToken,
                        overtakenBy |-> ""])
                /\ UNCHANGED searchResults
    /\ emitted' = << >>
    /\ Counted
    /\ UNCHANGED unhandledRejection
    /\ last' = [op |-> "timerFire", query |-> t.query]
    /\ UNCHANGED <<mapboxToken, isTokenSet, mapInstances, clickStopName, stops,
                   newStopName, searchQuery, delayDebounceFn, dirInFlight,
                   routeSource, clock>>

\* s without its i-th entry
RemoveAt(s, i) == SubSeq(s, 1, i - 1) \o SubSeq(s, i + 1, Len(s))

\* History only: the requests issued before the i-th one learn that a
\* later request's response has arrived first.
markOvertaken(reqs, i) ==
    [j \in 1..Len(reqs) |->
        IF j < i THEN [reqs[j] EXCEPT !.overtakenBy = reqs[i].query]
        ELSE reqs[j]]

resultsUnlessSuperseded(current, request) ==
    IF request.query = searchQuery
      THEN mapFeatures(Geocode(request.query))
      ELSE current

\* what searchLocations does with a response that parsed
resultsAfterResponse(current, request) == mapFeatures(Geocode(request.query))

\* searchLocations after its awaits, the response of the i-th request in
\* flight having arrived and parsed
GeocodeResponse(i) ==
    /\ i \in 1..Len(geoInFlight)
    /\ searchResults' = resultsAfterResponse(searchResults, geoInFlight[i])
    /\ geoInFlight' = RemoveAt(markOvertaken(geoInFlight, i), i)
    /\ emitted' = << >>
    /\ Counted
    /\ UNCHANGED unhandledRejection
    /\ last' = [op |-> "geocodeResponse", query |-> geoInFlight[i].query,
                overtakenBy |-> geoInFlight[i].overtakenBy]
    /\ UNCHANGED <<mapboxToken, isTokenSet, mapInstances, clickStopName, stops,
                   newStopName, searchQuery, timers, delayDebounceFn,
                   dirInFlight, routeSource, clock>>

resultsClearedOnFailure(current) == << >>

\* the catch block sets no state: the held results stay
resultsAfterFailure(current) == current

\* searchLocations' catch block: the fetch of the i-th request rejected, or
\* its body had no features array
GeocodeFailure(i) ==
    /\ i \in 1..Len(geoInFlight)
    /\ geoInFlight' = RemoveAt(geoInFlight, i)
    /\ searchResults' = resultsAfterFailure(searchResults)
    /\ emitted' = << "Sokfel" >>
    /\ Counted
    /\ UNCHANGED unhandledRejection
    /\ last' = [op |-> "geocodeFailure", query |-> geoInFlight[i].query]
    /\ UNCHANGED <<mapboxToken, isTokenSet, mapInstances, clickStopName, stops,
                   newStopName, searchQuery, timers, delayDebounceFn,
                   dirInFlight, routeSource, clock>>

\* ------------------------------------------------------- route refresher
routeRequestedFromOne(currentStops) ==
    mapInstances > 0 /\ Len(currentStops) >= 1

\* updateRoute goes past its early return (!map.current || length < 2)
routeRequested(currentStops) ==
    mapInstances > 0 /\ Len(currentStops) >= 2

updateRouteWithPreviousStops(currentStops) ==
    IF routeRequested(currentStops)
      THEN Append(dirInFlight, [waypoints |-> coordinatesOf(stops),
                                token |-> mapboxToken])
      ELSE dirInFlight

\* updateRoute up to its first await: the directions requests in flight
\* after the call
updateRoute(currentStops) ==
    IF routeRequested(currentStops)
      THEN Append(dirInFlight, [waypoints |-> coordinatesOf(currentStops),
                                token |-> mapboxToken])
      ELSE dirInFlight

\* updateRoute after its awaits: setData on the existing source, or
\* addSource and addLayer when there is none; data.routes[0].geometry
routeAfterResponse(source, request) ==
    IF source # NoRoute
      THEN Geometry(request.waypoints)
      ELSE Geometry(request.waypoints)

\* the response of the i-th directions request arrived with a route in it
DirectionsResponse(i) ==
    /\ i \in 1..Len(dirInFlight)
    /\ routeSource' = routeAfterResponse(routeSource, dirInFlight[i])
    /\ dirInFlight' = RemoveAt(dirInFlight, i)
    /\ emitted' = << >>
    /\ Counted
    /\ UNCHANGED unhandledRejection
    /\ last' = [op |-> "directionsResponse",
                waypoints |-> dirInFlight[i].waypoints]
    /\ UNCHANGED <<mapboxToken, isTokenSet, mapInstances, clickStopName, stops,
                   newStopName, searchQuery, searchResults, timers,
                   delayDebounceFn, geoInFlight, clock>>

routeClearedOnFailure(source) == NoRoute

\* updateRoute throws before it reaches setData or addSource: the overlay
\* stays as it was
routeAfterFailure(source) == source

\* the fetch of the i-th directions request rejected, or data.routes[0] is
\* undefined: updateRoute throws, nothing catches it
DirectionsFailure(i) ==
    /\ i \in 1..Len(dirInFlight)
    /\ dirInFlight' = RemoveAt(dirInFlight, i)
    /\ routeSource' = routeAfterFailure(routeSource)
    /\ unhandledRejection' = TRUE
    /\ emitted' = << >>
    /\ Counted
    /\ last' = [op |-> "directionsFailure",
                waypoints |-> dirInFlight[i].waypoints]
    /\ UNCHANGED <<mapboxToken, isTokenSet, mapInstances, clickStopName, stops,
                   newStopName, searchQuery, searchResults, timers,
                   delayDebounceFn, geoInFlight, clock>>

\* ------------------------------------------------------ stop list manager
addStopPrepends(prev, newStop) == << newStop >> \o prev

\* addStop's updater: [...prev, newStop]
addStopUpdated(prev, newStop) == Append(prev, newStop)

\* removeStop's updater: prev.filter(stop => stop.id !== id)
removeStopUpdated(prev, id) == SelectSeq(prev, LAMBDA stop : stop.id # id)

\* addStop(newStop): the updater, the route refresh it calls, the toast
addStop(newStop) ==
    /\ stops' = addStopUpdated(stops, newStop)
    /\ dirInFlight' = updateRoute(stops')
    /\ emitted' = << "Stopp tillagt" >>

\* the click listener's test of the name it closed over
clickAccepted(name) == name # ""

\* map.current.on('click', ...), registered once by initializeMap
MapClick(lngLat) ==
    /\ mapInstances > 0
    /\ IF clickAccepted(clickStopName)
         THEN /\ addStop([id |-> toString(clock), name |-> clickStopName,
                          coordinates |-> lngLat])
              /\ newStopName' = ""
              /\ last' = [op |-> "mapClick", lngLat |-> lngLat,
                          added |-> << [id |-> toString(clock),
                                        name |-> clickStopName,
                                        coordinates |-> lngLat] >>]
         ELSE /\ emitted' = << "Ange ett namn" >>
              /\ UNCHANGED <<stops, dirInFlight, newStopName>>
              /\ last' = [op |-> "mapClick", lngLat |-> lngLat,
                          added |-> << >>]
    /\ Counted
    /\ UNCHANGED unhandledRejection
    /\ UNCHANGED <<mapboxToken, isTokenSet, mapInstances, clickStopName,
                   searchQuery, searchResults, timers, delayDebounceFn,
                   geoInFlight, routeSource, clock>>

selectAlwaysAccepted(name) == TRUE

\* handleSearchSelect's test of the pending name
selectAccepted(name) == name # ""

selectedStopNamedAfterPlace(name, result, now) ==
    [id |-> toString(now), name |-> result.place_name,
     coordinates |-> result.center]

\* the stop handleSearchSelect passes to addStop
selectedStop(name, result, now) ==
    [id |-> toString(now), name |-> name, coordinates |-> result.center]

\* onClick of the k-th entry of the result list (flyTo moves the camera
\* only and is left out)
HandleSearchSelect(k) ==
    /\ isTokenSet
    /\ k \in 1..Len(searchResults)
    /\ IF selectAccepted(newStopName)
         THEN /\ addStop(selectedStop(newStopName, searchResults[k], clock))
              /\ newStopName' = ""
              /\ searchQuery' = ""
              /\ searchResults' = << >>
              /\ timers' = searchEffectTimers(searchQuery, "")
              /\ delayDebounceFn' = searchEffectHandle(searchQuery, "")
              /\ last' = [op |-> "handleSearchSelect",
                          result |-> searchResults[k],
                          added |-> << selectedStop(newStopName,
                                                    searchResults[k], clock) >>]
         ELSE /\ emitted' = << "Ange ett namn" >>
              /\ UNCHANGED <<stops, dirInFlight, newStopName, searchQuery,
                             searchResults, timers, delayDebounceFn>>
              /\ last' = [op |-> "handleSearchSelect",
                          result |-> searchResults[k], added |-> << >>]
    /\ Counted
    /\ UNCHANGED unhandledRejection
    /\ UNCHANGED <<mapboxToken, isTokenSet, mapInstances, clickStopName,
                   geoInFlight, routeSource, clock>>

\* onClick of "Ta bort stopp" in the menu of the i-th stop
RemoveStop(i) ==
    /\ isTokenSet
    /\ i \in 1..Len(stops)
    /\ stops' = removeStopUpdated(stops, stops[i].id)
    /\ dirInFlight' = updateRoute(stops')
    /\ emitted' = << >>
    /\ Counted
    /\ UNCHANGED unhandledRejection
    /\ last' = [op |-> "removeStop", id |-> stops[i].id]
    /\ UNCHANGED <<mapboxToken, isTokenSet, mapInstances, clickStopName,
                   newStopName, searchQuery, searchResults, timers,
                   delayDebounceFn, geoInFlight, routeSource, clock>>

suggestSkippedWhenEmpty(current) == Len(current) < 1

\* suggestStop's early return
suggestSkipped(current) == Len(current) < 2

\* the stop suggestStop synthesizes from the last stop (the name is written
\* here without the o-umlaut of the source's "Foreslaget")
suggestedStop(current, now) ==
    LET lastStop == current[Len(current)]
    IN  [id |-> toString(now),
         name |-> "Foreslaget stopp " \o toString(Len(current) + 1),
         coordinates |-> << lastStop.coordinates[1] + SuggestOffset,
                            lastStop.coordinates[2] >>]

\* the suggest button: disabled={stops.length < 1}
suggestDisabled(current) == Len(current) < 1

\* onClick={suggestStop}
SuggestStop ==
    /\ isTokenSet
    /\ ~suggestDisabled(stops)
    /\ IF suggestSkipped(stops)
         THEN /\ emitted' = << >>
              /\ UNCHANGED <<stops, dirInFlight>>
              /\ last' = [op |-> "suggestStop", added |-> << >>]
         ELSE /\ addStop(suggestedStop(stops, clock))
              /\ last' = [op |-> "suggestStop",
                          added |-> << suggestedStop(stops, clock) >>]
    /\ Counted
    /\ UNCHANGED unhandledRejection
    /\ UNCHANGED <<mapboxToken, isTokenSet, mapInstances, clickStopName,
                   newStopName, searchQuery, searchResults, timers,
                   delayDebounceFn, geoInFlight, routeSource, clock>>

\* ------------------------------------------------------------ the clock
\* A millisecond passes. A pending timer is due once time has passed since
\* it was set (its delay is not counted out in milliseconds).
Tick ==
    /\ clock' = clock + 1
    /\ timers' = {[t EXCEPT !.due = TRUE] : t \in timers}
    /\ emitted' = << >>
    /\ Counted
    /\ UNCHANGED unhandledRejection
    /\ last' = [op |-> "tick"]
    /\ UNCHANGED <<mapboxToken, isTokenSet, mapInstances, clickStopName, stops,
                   newStopName, searchQuery, searchResults, delayDebounceFn,
                   geoInFlight, dirInFlight, routeSource>>

Next ==
    \/ \E t \in Tokens : SetMapboxToken(t)
    \/ SubmitToken
    \/ \E n \in StopNames : SetNewStopName(n)
    \/ \E q \in Queries : SetSearchQuery(q)
    \/ \E t \in timers : TimerFire(t)
    \/ \E i \in 1..Len(geoInFlight) : GeocodeResponse(i)
    \/ \E i \in 1..Len(geoInFlight) : GeocodeFailure(i)
    \/ \E p \in ClickPoints : MapClick(p)
    \/ \E k \in 1..Len(searchResults) : HandleSearchSelect(k)
    \/ \E i \in 1..Len(stops) : RemoveStop(i)
    \/ SuggestStop
    \/ \E i \in 1..Len(dirInFlight) : DirectionsResponse(i)
    \/ \E i \in 1..Len(dirInFlight) : DirectionsFailure(i)
    \/ Tick

Spec == Init /\ [][Next]_vars

\* ======================================================================
\* Properties
\* ======================================================================
AddingOps == {"mapClick", "handleSearchSelect", "suggestStop"}

\* the step is an event of kind op
IsStep(op) == steps' # steps /\ last'.op = op

\* the step called addStop
CallsAddStop == steps' # steps /\ last'.op \in AddingOps /\ last'.added # << >>

\* C1: addStop(s) on a stop list L yields exactly L followed by s: s is the
\* last entry and the prior entries keep their positions and order.
C1_AddStopAppends ==
    [][CallsAddStop => stops' = stops \o last'.added]_vars

\* a suggested stop was appended behind two stops placed by search
C1_Witness ==
    /\ last.op = "suggestStop"
    /\ last.added # << >>
    /\ Len(stops) = 3
    /\ stops[3] = last.added[1]
    /\ stops[1].name \in {"A", "B"}
    /\ stops[2].name \in {"A", "B"}

\* C2: removeStop(id), for an id carried by a stop of the list, removes
\* exactly one entry (the length decreases by exactly 1) and the remaining
\* entries keep their relative order, for lists whose ids come from the
\* millisecond clock.
C2_RemoveExactlyOne ==
    [][IsStep("removeStop") =>
          \E i \in 1..Len(stops) :
              /\ stops[i].id = last'.id
              /\ stops' = RemoveAt(stops, i)]_vars

\* C3: whenever the stop list has 0 or 1 entries, no route overlay exists on
\* the map, also after removing stops from a list that had a drawn route.
C3_NoOverlayBelowTwoStops ==
    Len(stops) < 2 => routeSource = NoRoute

\* C4: once the map is active, a map click made while the pending stop name
\* is non-empty appends a stop with that name at the clicked coordinate and
\* clears the pending name.
C4_ClickWithNameAppends ==
    [][IsStep("mapClick") /\ newStopName # "" =>
          /\ stops' = Append(stops, [id |-> toString(clock),
                                     name |-> newStopName,
                                     coordinates |-> last'.lngLat])
          /\ newStopName' = ""]_vars

\* C5: every mutation of the stop list issues a directions request if and
\* only if the list after the mutation has at least 2 stops, and no
\* directions request is ever issued for a list of 0 or 1 stops.
C5_RefreshIffTwoStops ==
    [][steps' # steps =>
          /\ stops' # stops =>
                IF Len(stops') >= 2
                  THEN /\ Len(dirInFlight') = Len(dirInFlight) + 1
                       /\ SubSeq(dirInFlight', 1, Len(dirInFlight)) = dirInFlight
                  ELSE dirInFlight' = dirInFlight
          /\ \A i \in 1..Len(dirInFlight') :
                Len(dirInFlight'[i].waypoints) >= 2]_vars

\* a removal left two stops and asked for their route
C5_Witness ==
    /\ last.op = "removeStop"
    /\ Len(stops) = 2
    /\ dirInFlight # << >>
    /\ dirInFlight[Len(dirInFlight)].waypoints = coordinatesOf(stops)

\* C6: suggestStop with 0 or 1 stops changes no state (stop list, overlay,
\* notifications, outstanding requests); with 2 or more stops it appends
\* exactly one stop, at (last.longitude + 2, last.latitude) of the last stop.
C6_SuggestStop ==
    [][IsStep("suggestStop") =>
          IF Len(stops) < 2
            THEN /\ UNCHANGED <<stops, routeSource, dirInFlight, geoInFlight,
                                newStopName, searchQuery, searchResults,
                                timers>>
                 /\ emitted' = << >>
            ELSE /\ Len(stops') = Len(stops) + 1
                 /\ SubSeq(stops', 1, Len(stops)) = stops
                 /\ stops'[Len(stops')].coordinates =
                       << stops[Len(stops)].coordinates[1] + 2,
                          stops[Len(stops)].coordinates[2] >>]_vars

\* [A(10,20), B(12,22)] became a 3-entry list ending in a stop at (14,22)
C6_Witness ==
    /\ last.op = "suggestStop"
    /\ Len(stops) = 3
    /\ stops[1].name = "A" /\ stops[1].coordinates = <<10, 20>>
    /\ stops[2].name = "B" /\ stops[2].coordinates = <<12, 22>>
    /\ stops[3].coordinates = <<14, 22>>
    /\ stops[3].name = "Foreslaget stopp 3"

\* C7: whenever the search query settles (the debounce timer set for it
\* fires) on a value shorter than 3 characters, the empty string included,
\* the search results become empty and no geocoding request is issued.
C7_ShortQueryClears ==
    [][IsStep("timerFire") /\ Len(last'.query) < 3 =>
          /\ searchResults' = << >>
          /\ geoInFlight' = geoInFlight]_vars

\* C8: a map click or a search selection made while the pending stop name
\* is empty leaves the stop list, the search query, the search results and
\* the route overlay unchanged, issues no provider request and emits exactly
\* one notification.
C8_NoNameRejected ==
    [][(IsStep("mapClick") \/ IsStep("handleSearchSelect")) /\ newStopName = ""
          => /\ UNCHANGED <<stops, searchQuery, searchResults, routeSource,
                            geoInFlight, dirInFlight>>
             /\ Len(emitted') = 1]_vars

\* a result was selected with no name typed, and is still on display
C8_Witness ==
    /\ last.op = "handleSearchSelect"
    /\ last.added = << >>
    /\ newStopName = ""
    /\ searchResults # << >>
    /\ emitted = << "Ange ett namn" >>

\* C9: at most one debounce timer is pending; each query change cancels the
\* previous timer and starts a new one; a geocoding request is issued only
\* when a timer fires, and carries the query value current at that moment
\* (never a value that was replaced before its delay elapsed).
C9_Debounce ==
    [][steps' # steps =>
          /\ Cardinality(timers') <= 1
          /\ searchQuery' # searchQuery =>
                \E t \in timers' :
                    /\ timers' = {t}
                    /\ t \notin timers
                    /\ t.query = searchQuery'
                    /\ ~t.due
          /\ geoInFlight' # geoInFlight /\ Len(geoInFlight') >= Len(geoInFlight)
                => /\ last'.op = "timerFire"
                   /\ Len(geoInFlight') = Len(geoInFlight) + 1
                   /\ SubSeq(geoInFlight', 1, Len(geoInFlight)) = geoInFlight
                   /\ geoInFlight'[Len(geoInFlight')].query = searchQuery
                   /\ timers' = {}]_vars

\* two debounce periods ran out, each asking for the query then current
C9_Witness ==
    /\ last.op = "timerFire"
    /\ Len(geoInFlight) = 2
    /\ geoInFlight[1].query # geoInFlight[2].query
    /\ geoInFlight[2].query = searchQuery
    /\ timers = {}

\* C10: there is a reachable interleaving in which two geocoding requests
\* are in flight, the response to the older (superseded) query arrives after
\* the response to the newer one, and the held results end up being those of
\* the older query while the current query is the newer one. What makes it
\* reachable: a response that parsed always replaces the held results by its
\* own, whatever the query is by then.
C10_ResponseAlwaysOverwrites ==
    [][IsStep("geocodeResponse") =>
          searchResults' = mapFeatures(Geocode(last'.query))]_vars

\* the interleaving of C10: the last response to arrive was overtaken by the
\* response to the current query, and its results are the ones held
C10_StaleOverwrite ==
    /\ last.op = "geocodeResponse"
    /\ Len(last.query) >= 3 /\ Len(searchQuery) >= 3
    /\ last.query # searchQuery
    /\ last.overtakenBy = searchQuery
    /\ geoInFlight = << >>
    /\ searchResults = mapFeatures(Geocode(last.query))
    /\ searchResults # mapFeatures(Geocode(searchQuery))

\* C11: when the search query text changes, the results produced for the
\* previous query are discarded: from the keystroke on they are no longer
\* held or displayed, whatever the new query value is.
C11_QueryChangeDiscardsResults ==
    [][IsStep("setSearchQuery") => searchResults' = << >>]_vars

\* C12: selecting a search result while the pending stop name is non-empty
\* appends exactly one stop with that name at the result's coordinates, and
\* afterwards the pending name, the search query and the search results are
\* all empty.
C12_SelectAddsAndClears ==
    [][IsStep("handleSearchSelect") /\ newStopName # "" =>
          /\ Len(stops') = Len(stops) + 1
          /\ SubSeq(stops', 1, Len(stops)) = stops
          /\ stops'[Len(stops')].name = newStopName
          /\ stops'[Len(stops')].coordinates = last'.result.center
          /\ newStopName' = ""
          /\ searchQuery' = ""
          /\ searchResults' = << >>]_vars

\* the second result of "abc" was selected under the name B, behind a first
\* stop, while "abc" was still the query
C12_Witness ==
    /\ last.op = "handleSearchSelect"
    /\ last.result = [place_name |-> "P2", center |-> <<12, 22>>]
    /\ Len(stops) = 2
    /\ stops[2].name = "B" /\ stops[2].coordinates = <<12, 22>>
    /\ newStopName = "" /\ searchQuery = "" /\ searchResults = << >>
    /\ \E t \in timers : t.query = "" /\ ~t.due

\* C13: no two stops of the stop list share an identifier, for lists built
\* by any sequence of map clicks, search selections and suggestStop calls.
C13_UniqueIds ==
    \A i, j \in 1..Len(stops) : i # j => stops[i].id # stops[j].id

\* the component still takes the user's events: typing a name, typing a
\* query, clicking the map, and removing or suggesting a stop where the
\* stop list offers it
AcceptsEvents ==
    /\ ENABLED (\E n \in StopNames : SetNewStopName(n))
    /\ ENABLED (\E q \in Queries : SetSearchQuery(q))
    /\ ENABLED (\E p \in ClickPoints : MapClick(p))
    /\ searchResults # << >> =>
          ENABLED (\E k \in 1..Len(searchResults) : HandleSearchSelect(k))
    /\ stops # << >> =>
          /\ ENABLED (\E i \in 1..Len(stops) : RemoveStop(i))
          /\ ENABLED SuggestStop

\* C14: a geocoding request that fails is caught: it emits exactly one
\* notification, leaves the stop list, the pending name, the search query
\* and the previously held search results unchanged, and the component
\* keeps accepting every later event (within the runs explored).
C14_GeocodeFailureCaught ==
    /\ [][IsStep("geocodeFailure") =>
             /\ UNCHANGED <<stops, newStopName, searchQuery, searchResults>>
             /\ Len(emitted') = 1]_vars
    /\ [](last.op = "geocodeFailure" /\ steps < MaxSteps => AcceptsEvents)

\* a request for "abd" failed while the results of "abc" were held
C14_Witness ==
    /\ last.op = "geocodeFailure"
    /\ last.query = "abd"
    /\ searchResults = mapFeatures(Geocode("abc"))
    /\ emitted = << "Sokfel" >>

\* C15: the map is instantiated at most once, and only after a non-empty
\* token has been submitted; once the component is map-active it never
\* returns to the token form and the token never changes; no geocoding or
\* directions request is issued before activation.
C15_TokenGate ==
    [][steps' # steps =>
          /\ mapInstances' <= 1
          /\ mapInstances' > 0 => isTokenSet'
          /\ isTokenSet' => mapboxToken' # ""
          /\ isTokenSet => isTokenSet' /\ mapboxToken' = mapboxToken
                           /\ mapInstances' = mapInstances
          /\ ~isTokenSet' => geoInFlight' = << >> /\ dirInFlight' = << >>]_vars

\* the map is active, with one map object, and both providers were asked
C15_Witness ==
    /\ isTokenSet
    /\ mapInstances = 1
    /\ mapboxToken = "pk"
    /\ geoInFlight # << >>
    /\ dirInFlight # << >>

\* C16: each stop-list mutation that leaves 2 or more stops issues exactly
\* one directions request, whose waypoint sequence is the coordinates of the
\* list after the mutation, in list order (never the list before it).
C16_RequestCarriesNewList ==
    [][steps' # steps /\ stops' # stops /\ Len(stops') >= 2 =>
          dirInFlight' = Append(dirInFlight,
                                [waypoints |-> coordinatesOf(stops'),
                                 token |-> mapboxToken])]_vars

\* a suggestion made while the request for the two-stop list was still in
\* flight: the second request carries the three-stop list
C16_Witness ==
    /\ last.op = "suggestStop"
    /\ Len(stops) = 3
    /\ Len(dirInFlight) = 2
    /\ dirInFlight[1].waypoints = coordinatesOf(SubSeq(stops, 1, 2))
    /\ dirInFlight[2].waypoints = coordinatesOf(stops)

\* C17: whenever no directions request is in flight, all issued requests
\* succeeded and the stop list has 2 or more stops, the route overlay's
\* geometry is the one returned for the current ordered stop list, under
\* every order in which the responses of overlapping requests arrive.
C17_OverlayOfCurrentList ==
    dirInFlight = << >> /\ ~unhandledRejection /\ Len(stops) >= 2
        => routeSource = Geometry(coordinatesOf(stops))

\* C18: when a directions request fails or returns no route candidate, the
\* committed stop-list mutation is kept, the route overlay is left exactly
\* as it was, no retry request is issued, and every later add, remove,
\* suggest and search event is still handled (within the runs explored).
C18_DirectionsFailureKeepsState ==
    /\ [][IsStep("directionsFailure") =>
             /\ UNCHANGED <<stops, routeSource, geoInFlight, timers>>
             /\ Len(dirInFlight') = Len(dirInFlight) - 1
             /\ \E i \in 1..Len(dirInFlight) :
                    dirInFlight' = RemoveAt(dirInFlight, i)]_vars
    /\ [](last.op = "directionsFailure" /\ steps < MaxSteps => AcceptsEvents)

\* the request for the three-stop list failed: the three stops are kept and
\* the overlay still shows the route of the first two
C18_Witness ==
    /\ last.op = "directionsFailure"
    /\ Len(stops) = 3
    /\ last.waypoints = coordinatesOf(stops)
    /\ routeSource = Geometry(coordinatesOf(SubSeq(stops, 1, 2)))
    /\ dirInFlight = << >>
====
